---- MODULE Spec2Model ----
(***************************************************************************)
(* Alert lifecycle of the BloodAlertSystem backend: one persisted Alert    *)
(* document (models/Alert.js), the route handlers that load, mutate and    *)
(* save it (routes/alerts.js, routes/donors.js, routes/notifications.js),  *)
(* the dispatch of notifications (services/notificationService.js) and     *)
(* the clock; the owner's Hospital document with its inventory and         *)
(* partnerships (routes/hospitals.js); the donor eligibility and blood     *)
(* compatibility functions (models/Donor.js); the derived metrics of an    *)
(* alert, in the arithmetic of JavaScript Numbers.  Times are milliseconds *)
(* since the first moment modelled.                                        *)
(*                                                                         *)
(* Fields of the document that no handler modelled here reads or writes    *)
(* after creation (reason, patientInfo, location, tags, internalNotes,     *)
(* lastModifiedBy, openedAt, respondedAt, message, contactInfo) are not    *)
(* represented; requests are sent without the optional `reason`.           *)
(***************************************************************************)
EXTENDS Integers, Sequences, FiniteSets, TLC

VARIABLES
  alert,         \* the persisted Alert document
  alertExists,   \* FALSE once the TTL index has removed the document
  now,           \* the clock (ms)
  partnerships,  \* Hospital.partnerships of every hospital
  createPc,      \* position of the create-alert handler that made the alert
  nExtends,      \* number of successful extend-alert requests (bounding only)
  reqs,          \* in-flight requests of the handlers that await between load and save
  last,          \* the HTTP answer of the last handler that answered
  hospital,      \* the Hospital document of the alert's owner (one blood type)
  autoAlerts,    \* the alerts created by inventory updates, oldest first
  call           \* the last call of a pure function: its arguments and result

vars == <<alert, alertExists, now, partnerships, createPc, nExtends, reqs, last,
          hospital, autoAlerts, call>>

----------------------------------------------------------------------------
(* Bounds *)

MaxTicks == 2
MaxResponses == 2
MaxExtends == 1
MaxUnits == 2
NumProcs == 2
MaxAutoAlerts == 2
MaxRatio == 8

(* Program constants *)

HourMs == 3600000
CriticalExpiryHours == 24
DefaultExpiryHours == 72
MinExtendHours == 1
MaxExtendHours == 168
DefaultCritical == 5
MinUnitsNeeded == 1
MinDonorAge == 18
MaxDonorAge == 65
MinDonorWeight == 45
DonationIntervalDays == 56
DaySeconds == 86400
MaxUnitsNeeded == 100

TickMs == 36 * HourMs
MaxNow == MaxTicks * TickMs

Undefined == "undefined"
NoTime == -1
Absent == -1

Donors == {"d1", "d2"}
Owner == "hA"
Hospitals == {"hA", "hB", "hC"}
Procs == 1..NumProcs

Statuses == {"active", "partially_fulfilled", "fulfilled", "expired", "cancelled"}
UrgencyLevels == {"low", "medium", "high", "critical"}
ResponseTypes == {"interested", "committed", "donated", "not_available", "not_eligible"}
RespondRouteTypes == {"interested", "committed", "not_available", "not_eligible"}
NotificationResponses == {"interested", "not_available", "not_eligible"}
ShareResponses == {"pending", "accepted", "declined", "partially_fulfilled"}
RespondShareResponses == {"accepted", "declined", "partially_fulfilled"}
SharingPartnershipTypes == {"blood_sharing", "emergency_backup"}
PartnershipTypes == {"blood_sharing", "emergency_backup", "referral"}

(* Inputs the requests are drawn from *)

UrgencyInputs == {"critical", "high"}
UnitsInputs == {MaxUnits}
StatusInputs == Statuses \cup {"archived"}
HoursInputs == {0, 1, 168, 169}
RespondTypeInputs == {"interested", "donated"}
RespondShareInputs == {"accepted", "pending"}
UnitsPromisedInputs == {2}
DispatchInputs == {<<"d1">>}
ShareInputs == {<<"hA", <<>>>>, <<"hA", <<"hB">>>>, <<"hA", <<"hC">>>>, <<"hA", <<"hB", "hB">>>>,
                <<"hA", <<"hC", "hB">>>>, <<"hB", <<"hB">>>>}
RespondShareRequesters == {"hB", "hC"}
AddResponseInputs == {<<"donated", TRUE>>}
DonationInputs == {<<"donated", TRUE>>, <<"donated", FALSE>>, <<"interested", FALSE>>}
ThrewInputs == {{}, {<<"d1", "email">>}}
MailThrewInputs == {FALSE}
SendInputs == {<<>>, <<"d1">>, <<"d2", "d1">>, <<"d3", "d1", "d2">>}
FailingInputs == {{}, {<<"d1", "email">>}, {<<"d1", "sms">>}, {<<"d2", "push">>},
                  {<<"d3", "push">>, <<"d1", "sms">>}}
RespondRouteInputs == {"interested", "committed", "not_available", "not_eligible", "donated"}
DispatchStatusInputs == {"active", "partially_fulfilled"}
PartnershipInputs == {<<"hB", "hC", "blood_sharing">>, <<"hC", "hB", "referral">>,
                      <<"hB", "hB", "blood_sharing">>, <<"hB", "hX", "referral">>,
                      <<"hA", "hB", "referral">>, <<"hB", "hC", "donation">>}
SaveOkInputs == BOOLEAN
CreateUrgencyInputs == UrgencyLevels \cup {"urgent"}
CreateUnitsInputs == {0, 1}
CreateDispatchInputs == {<<>>, <<"d1">>}
BloodTypeInputs == {"A+", "C+"}
AvailableInputs == {Absent, 0, 5, 6}
CriticalInputs == {Absent, 3}

\* The clock of the donor functions: the calendar date that new Date() gives
\* the age getter and its timestamp.  Donor timestamps are in seconds: the
\* code's division by the 1000 * 60 * 60 * 24 ms of a day is the division by
\* DaySeconds.
ClockInputs == {[year |-> 2025, month |-> 6, date |-> 15, t |-> 100 * DaySeconds]}
DateOfBirthInputs ==
  {[year |-> 2007, month |-> 6, date |-> 15], [year |-> 2007, month |-> 6, date |-> 16],
   [year |-> 2007, month |-> 7, date |-> 1],  [year |-> 1959, month |-> 6, date |-> 16],
   [year |-> 1959, month |-> 6, date |-> 15], [year |-> 1990, month |-> 1, date |-> 20]}
WeightInputs == {44, 45}
LastDonationInputs == {NoTime, 44 * DaySeconds, 44 * DaySeconds + 1, 101 * DaySeconds}
DeferralUntilInputs == {NoTime, 100 * DaySeconds, 100 * DaySeconds + 1}
DonorBloodTypeInputs == {"A+", "A-", "B+", "B-", "AB+", "AB-", "O+", "O-", "C+"}
AlertBloodTypeInputs == {"AB+", "A-"}
SearchRadiusInputs == {50, 100}
RespondedInputs == {<<>>, <<"d1">>}
\* numerator and denominator of the derived metrics
RatioInputs == ((0..MaxRatio) \X (0..MaxRatio)) \cup {<<23, 40>>, <<40, 40>>, <<41, 40>>}

----------------------------------------------------------------------------
(* Helpers *)

\* Array.prototype.find over a document array, by the field the callback
\* compares: keys[i] is that field of element i; the index of the first
\* element whose key equals key, 0 when there is none.
FindIndex(keys, key) ==
  IF \E i \in 1..Len(keys) : keys[i] = key
  THEN CHOOSE i \in 1..Len(keys) : keys[i] = key /\ \A j \in 1..(i-1) : keys[j] # key
  ELSE 0

DonorKeys(sentTo) == [i \in 1..Len(sentTo) |-> sentTo[i].donor]

HospitalKeys(sharedWith) == [i \in 1..Len(sharedWith) |-> sharedWith[i].hospital]

----------------------------------------------------------------------------
(* models/Alert.js *)

\* The expiresAt default giving every urgency level the 72 hours.
DefaultExpiresAtSameForAll(urgencyLevel, t) ==
  t + DefaultExpiryHours * 60 * 60 * 1000

\* expiresAt default: 24 hours for critical, 72 hours for others
DefaultExpiresAt(urgencyLevel, t) ==
  LET hours == IF urgencyLevel = "critical" THEN CriticalExpiryHours ELSE DefaultExpiryHours
  IN t + hours * 60 * 60 * 1000

\* new Alert(alertData) with the schema defaults
NewAlert(urgencyLevel, unitsNeeded, t) ==
  [ urgencyLevel   |-> urgencyLevel,
    unitsNeeded    |-> unitsNeeded,
    unitsCollected |-> 0,
    status         |-> "active",
    notifications  |-> [sent |-> 0, opened |-> 0, responded |-> 0, sentTo |-> <<>>],
    responses      |-> <<>>,
    sharing        |-> [allowSharing |-> TRUE, sharedWith |-> <<>>],
    expiresAt      |-> DefaultExpiresAt(urgencyLevel, t) ]

isExpired(a, t) == t > a.expiresAt

\* addResponse counting a unit for a committed response as for a donation.
addResponseCountsCommitted(a, donorId, responseType, hasDetails, t) ==
  LET sentTo == a.notifications.sentTo
      i == FindIndex(DonorKeys(sentTo), donorId)
      response == [ donor           |-> donorId,
                    responseType    |-> responseType,
                    donationDetails |-> hasDetails,
                    responseTime    |-> IF i > 0 THEN (t - sentTo[i].sentAt) \div (1000 * 60)
                                        ELSE NoTime ]
      a1 == IF i > 0
            THEN [a EXCEPT !.notifications.sentTo[i].responded = TRUE,
                           !.notifications.sentTo[i].response = responseType]
            ELSE a
      a2 == [a1 EXCEPT !.responses = Append(@, response),
                       !.notifications.responded = @ + 1]
  IN IF (responseType = "donated" /\ hasDetails) \/ responseType = "committed"
     THEN LET collected == a2.unitsCollected + 1
          IN [a2 EXCEPT !.unitsCollected = collected,
                        !.status = IF collected >= a2.unitsNeeded THEN "fulfilled"
                                   ELSE IF collected > 0 THEN "partially_fulfilled"
                                   ELSE @]
     ELSE a2

\* addResponse with the fulfilment test off by one (> for >=).
addResponseStrictFulfil(a, donorId, responseType, hasDetails, t) ==
  LET sentTo == a.notifications.sentTo
      i == FindIndex(DonorKeys(sentTo), donorId)
      response == [ donor           |-> donorId,
                    responseType    |-> responseType,
                    donationDetails |-> hasDetails,
                    responseTime    |-> IF i > 0 THEN (t - sentTo[i].sentAt) \div (1000 * 60)
                                        ELSE NoTime ]
      a1 == IF i > 0
            THEN [a EXCEPT !.notifications.sentTo[i].responded = TRUE,
                           !.notifications.sentTo[i].response = responseType]
            ELSE a
      a2 == [a1 EXCEPT !.responses = Append(@, response),
                       !.notifications.responded = @ + 1]
  IN IF responseType = "donated" /\ hasDetails
     THEN LET collected == a2.unitsCollected + 1
          IN [a2 EXCEPT !.unitsCollected = collected,
                        !.status = IF collected > a2.unitsNeeded THEN "fulfilled"
                                   ELSE IF collected > 0 THEN "partially_fulfilled"
                                   ELSE @]
     ELSE a2

addResponse(a, donorId, responseType, hasDetails, t) ==
  LET sentTo == a.notifications.sentTo
      i == FindIndex(DonorKeys(sentTo), donorId)
      response == [ donor           |-> donorId,
                    responseType    |-> responseType,
                    donationDetails |-> hasDetails,
                    responseTime    |-> IF i > 0 THEN (t - sentTo[i].sentAt) \div (1000 * 60)
                                        ELSE NoTime ]
      a1 == IF i > 0
            THEN [a EXCEPT !.notifications.sentTo[i].responded = TRUE,
                           !.notifications.sentTo[i].response = responseType]
            ELSE a
      a2 == [a1 EXCEPT !.responses = Append(@, response),
                       !.notifications.responded = @ + 1]
  IN IF responseType = "donated" /\ hasDetails
     THEN LET collected == a2.unitsCollected + 1
          IN [a2 EXCEPT !.unitsCollected = collected,
                        !.status = IF collected >= a2.unitsNeeded THEN "fulfilled"
                                   ELSE IF collected > 0 THEN "partially_fulfilled"
                                   ELSE @]
     ELSE a2

\* extendExpiry adding minutes for hours (a factor of 60 dropped).
extendExpiryMinutes(a, hours) ==
  [a EXCEPT !.expiresAt = @ + hours * 60 * 1000]

extendExpiry(a, hours) ==
  [a EXCEPT !.expiresAt = @ + hours * 60 * 60 * 1000]

\* Schema validation run by save(): enum and min validators.
ValidAlert(a) ==
  /\ a.unitsNeeded >= 1
  /\ a.status \in Statuses
  /\ \A i \in 1..Len(a.notifications.sentTo) :
       a.notifications.sentTo[i].response \in NotificationResponses \cup {Undefined}
  /\ \A i \in 1..Len(a.responses) : a.responses[i].responseType \in ResponseTypes
  /\ \A i \in 1..Len(a.sharing.sharedWith) :
       a.sharing.sharedWith[i].response \in ShareResponses \cup {Undefined}

----------------------------------------------------------------------------
(* Initial state: a hospital has just created the alert (alert.save() of   *)
(* create-alert has returned); the hospitals hold the partnerships below.  *)

\* A Hospital document with the schema defaults, for one blood type.
NewHospital ==
  [ inventory  |-> [available |-> 0, critical |-> DefaultCritical],
    alerts     |-> [autoAlertEnabled |-> TRUE],
    statistics |-> [totalBloodRequests |-> 0] ]

NoCall == [fn |-> "none"]

Partnership(h, type) == [hospitalId |-> h, type |-> type, status |-> "active"]

InitPartnerships ==
  [h \in Hospitals |->
     CASE h = "hA" -> <<Partnership("hB", "blood_sharing"), Partnership("hC", "referral")>>
       [] h = "hB" -> <<Partnership("hA", "blood_sharing")>>
       [] h = "hC" -> <<Partnership("hA", "referral")>>]

IdleReq == [pc |-> "idle"]

Answer(code) == code

Init ==
  /\ \E u \in UrgencyInputs, n \in UnitsInputs : alert = NewAlert(u, n, 0)
  /\ alertExists = TRUE
  /\ now = 0
  /\ partnerships = InitPartnerships
  /\ createPc = "saved"
  /\ nExtends = 0
  /\ reqs = [p \in Procs |-> IdleReq]
  /\ last = Answer(0)
  /\ hospital = NewHospital
  /\ autoAlerts = <<>>
  /\ call = NoCall

----------------------------------------------------------------------------
(* The clock and the TTL index *)

\* A tick is far longer than the create-alert handler runs.
Tick ==
  /\ createPc # "saved"
  /\ now + TickMs <= MaxNow
  /\ now' = now + TickMs
  /\ UNCHANGED <<alert, alertExists, partnerships, createPc, nExtends, reqs, last, hospital, autoAlerts, call>>

\* alertSchema.index({ expiresAt: 1 }, { expireAfterSeconds: 0 })
TTLRemove ==
  /\ alertExists
  /\ now > alert.expiresAt
  /\ alertExists' = FALSE
  /\ UNCHANGED <<alert, now, partnerships, createPc, nExtends, reqs, last, hospital, autoAlerts, call>>

----------------------------------------------------------------------------
(* services/notificationService.js *)

\* donor.preferences.notificationMethods of the donors in the database
NotificationMethods ==
  [d \in Donors \cup {"d3"} |->
     CASE d = "d1" -> [email |-> TRUE,  sms |-> TRUE,  push |-> FALSE]
       [] d = "d2" -> [email |-> FALSE, sms |-> TRUE,  push |-> TRUE]
       [] OTHER    -> [email |-> FALSE, sms |-> FALSE, push |-> TRUE]]

\* The channels in the order the loop body sends on them
Channels == <<"email", "sms", "push">>

getPreferredMethod(d) ==
  IF NotificationMethods[d].email THEN "email"
  ELSE IF NotificationMethods[d].sms THEN "sms"
  ELSE IF NotificationMethods[d].push THEN "push"
  ELSE "email"

NotificationRecord(d, t) ==
  [donor |-> d, method |-> getPreferredMethod(d), sentAt |-> t,
   opened |-> FALSE, responded |-> FALSE, response |-> Undefined]

NoResults == [c \in {"email", "sms", "push"} |-> [sent |-> 0, failed |-> 0]]

\* The sends of one donor's try block: each enabled channel of `channels` in
\* order, up to and with the first send that throws (failing = the sends
\* that throw, as <<donor, channel>>).
RECURSIVE SendChannels(_, _, _)
SendChannels(d, channels, failing) ==
  IF channels = <<>> THEN [sends |-> <<>>, threw |-> FALSE]
  ELSE LET c == Head(channels)
       IN IF ~NotificationMethods[d][c] THEN SendChannels(d, Tail(channels), failing)
          ELSE IF <<d, c>> \in failing THEN [sends |-> <<<<d, c>>>>, threw |-> TRUE]
          ELSE LET rest == SendChannels(d, Tail(channels), failing)
               IN [sends |-> <<<<d, c>>>> \o rest.sends, threw |-> rest.threw]

\* incrementFailedCount counting the failure on the preferred channel only.
incrementFailedCountPreferred(results, d) ==
  [results EXCEPT ![getPreferredMethod(d)].failed = @ + 1]

incrementFailedCount(results, d) ==
  [c \in DOMAIN results |->
     IF NotificationMethods[d][c] THEN [results[c] EXCEPT !.failed = @ + 1]
     ELSE results[c]]

\* The for loop of sendBloodShortageAlert left by the first send that throws.
RECURSIVE SendLoopLeftOnThrow(_, _, _, _)
SendLoopLeftOnThrow(donors, failing, t, acc) ==
  IF donors = <<>> THEN acc
  ELSE LET d == Head(donors)
           try == SendChannels(d, Channels, failing)
           counted == [c \in DOMAIN acc.results |->
                         IF \E i \in 1..Len(try.sends) : try.sends[i] = <<d, c>>
                         THEN [acc.results[c] EXCEPT !.sent = @ + 1]
                         ELSE acc.results[c]]
       IN IF try.threw
          THEN [sentTo |-> acc.sentTo, results |-> incrementFailedCount(acc.results, d),
                sends |-> acc.sends \o try.sends]
          ELSE SendLoopLeftOnThrow(Tail(donors), failing, t,
                 [sentTo  |-> Append(acc.sentTo, NotificationRecord(d, t)),
                  results |-> counted,
                  sends   |-> acc.sends \o try.sends])

\* The for loop of sendBloodShortageAlert over donors: acc holds the records
\* pushed, the results and the sends made so far.  A send that returns has
\* counted results[channel].sent; a send that throws leaves the try block to
\* the catch, before the record of the donor is pushed.
RECURSIVE SendLoop(_, _, _, _)
SendLoop(donors, failing, t, acc) ==
  IF donors = <<>> THEN acc
  ELSE LET d == Head(donors)
           try == SendChannels(d, Channels, failing)
           returned == Len(try.sends) - (IF try.threw THEN 1 ELSE 0)
           counted == [c \in DOMAIN acc.results |->
                         IF \E i \in 1..returned : try.sends[i] = <<d, c>>
                         THEN [acc.results[c] EXCEPT !.sent = @ + 1]
                         ELSE acc.results[c]]
       IN SendLoop(Tail(donors), failing, t,
            [sentTo  |-> IF try.threw THEN acc.sentTo
                         ELSE Append(acc.sentTo, NotificationRecord(d, t)),
             results |-> IF try.threw THEN incrementFailedCount(counted, d) ELSE counted,
             sends   |-> acc.sends \o try.sends])

\* sendBloodShortageAlert adding the number of records pushed to
\* notifications.sent.
sendBloodShortageAlertCountsRecords(a, donors, failing, t) ==
  LET out == SendLoop(donors, failing, t,
                      [sentTo |-> <<>>, results |-> NoResults, sends |-> <<>>])
  IN [alert   |-> [a EXCEPT !.notifications.sentTo = @ \o out.sentTo,
                            !.notifications.sent = @ + Len(out.sentTo)],
      results |-> out.results,
      sends   |-> out.sends]

\* sendBloodShortageAlert(alert, donors): the alert it saves, the results it
\* returns and the sends it has made.
sendBloodShortageAlert(a, donors, failing, t) ==
  LET out == SendLoop(donors, failing, t,
                      [sentTo |-> <<>>, results |-> NoResults, sends |-> <<>>])
  IN [alert   |-> [a EXCEPT !.notifications.sentTo = @ \o out.sentTo,
                            !.notifications.sent = @ + Len(donors)],
      results |-> out.results,
      sends   |-> out.sends]

\* create-alert from findEligibleDonors on, run on the document it has just
\* saved.  sendBloodShortageAlert(alert, donors) catches what a donor's
\* channel send throws; its save() writes the pushed records and
\* notifications.sent.  sendHospitalAlert is awaited with nothing around it
\* but the handler's own catch: when sendMail rejects (mailThrew) the handler
\* answers 500 before it reaches the hospital statistics.  `call` keeps the
\* donors, the sends made and the notificationResults.
Dispatch(donors, failing, mailThrew) ==
  /\ createPc = "saved"
  /\ createPc' = "done"
  /\ IF ~alertExists
     THEN /\ alert' = alert
          /\ hospital' = hospital
          /\ call' = call
          /\ last' = Answer(500)
     ELSE LET sent == sendBloodShortageAlert(alert, donors, failing, now)
          IN /\ alert' = sent.alert
             /\ call' = [fn |-> "sendBloodShortageAlert", donors |-> donors,
                         sends |-> sent.sends, out |-> sent.results]
             /\ IF mailThrew
                THEN /\ hospital' = hospital
                     /\ last' = Answer(500)
                ELSE /\ hospital' = [hospital EXCEPT !.statistics.totalBloodRequests = @ + 1]
                     /\ last' = Answer(201)
  /\ UNCHANGED <<alertExists, now, partnerships, nExtends, reqs, autoAlerts>>

----------------------------------------------------------------------------
(* Entity operation addResponse followed by save() *)

AddResponse(donorId, responseType, hasDetails) ==
  /\ alertExists
  /\ Len(alert.responses) < MaxResponses
  /\ LET doc == addResponse(alert, donorId, responseType, hasDetails, now)
     IN IF ValidAlert(doc)
        THEN alert' = doc /\ last' = Answer(200)
        ELSE alert' = alert /\ last' = Answer(500)
  /\ UNCHANGED <<alertExists, now, partnerships, createPc, nExtends, reqs, hospital, autoAlerts, call>>

----------------------------------------------------------------------------
(* POST /alerts/:alertId/respond (donor) *)

\* The handler from Alert.findById to the answer, on the loaded document:
\* the answer code and the document handed to save() (the loaded one when
\* nothing is saved).
RespondOutcome(doc, found, donorId, responseType, t) ==
  IF responseType \notin RespondRouteTypes THEN [code |-> 400, doc |-> doc]
  ELSE IF ~found THEN [code |-> 404, doc |-> doc]
  ELSE IF doc.status # "active" THEN [code |-> 400, doc |-> doc]
  ELSE IF \E i \in 1..Len(doc.responses) : doc.responses[i].donor = donorId
       THEN [code |-> 400, doc |-> doc]
  ELSE LET d2 == addResponse(doc, donorId, responseType, FALSE, t)
       IN IF ValidAlert(d2) THEN [code |-> 200, doc |-> d2]
          ELSE [code |-> 500, doc |-> doc]

RespondAsDonor(donorId, responseType) ==
  /\ Len(alert.responses) < MaxResponses
  /\ LET out == RespondOutcome(alert, alertExists, donorId, responseType, now)
     IN /\ alert' = out.doc
        /\ last' = Answer(out.code)
  /\ UNCHANGED <<alertExists, now, partnerships, createPc, nExtends, reqs, hospital, autoAlerts, call>>

----------------------------------------------------------------------------
(* PUT /:alertId/status, PUT /:alertId/extend (hospital) *)

UpdateStatus(status) ==
  /\ IF status \notin Statuses
     THEN alert' = alert /\ last' = Answer(400)
     ELSE IF ~alertExists
     THEN alert' = alert /\ last' = Answer(404)
     ELSE /\ alert' = [alert EXCEPT !.status = status]
          /\ last' = Answer(200)
  /\ UNCHANGED <<alertExists, now, partnerships, createPc, nExtends, reqs, hospital, autoAlerts, call>>

ExtendAlert(hours) ==
  /\ IF hours < MinExtendHours \/ hours > MaxExtendHours
     THEN alert' = alert /\ last' = Answer(400) /\ nExtends' = nExtends
     ELSE IF ~alertExists
     THEN alert' = alert /\ last' = Answer(404) /\ nExtends' = nExtends
     ELSE IF alert.status # "active" /\ alert.status # "partially_fulfilled"
     THEN alert' = alert /\ last' = Answer(400) /\ nExtends' = nExtends
     ELSE /\ nExtends < MaxExtends
          /\ alert' = extendExpiry(alert, hours)
          /\ nExtends' = nExtends + 1
          /\ last' = Answer(200)
  /\ UNCHANGED <<alertExists, now, partnerships, createPc, reqs, hospital, autoAlerts, call>>

----------------------------------------------------------------------------
(* POST /:alertId/share, POST /:alertId/respond-share (hospital) *)

\* isPartner without the test of the partnership type.
isPartnerAnyType(requester, hospitalId) ==
  \E i \in 1..Len(partnerships[requester]) :
     LET p == partnerships[requester][i]
     IN /\ p.hospitalId = hospitalId
        /\ p.status = "active"

isPartner(requester, hospitalId) ==
  \E i \in 1..Len(partnerships[requester]) :
     LET p == partnerships[requester][i]
     IN /\ p.hospitalId = hospitalId
        /\ p.status = "active"
        /\ p.type \in SharingPartnershipTypes

SharingRecord(hospitalId) ==
  [hospital |-> hospitalId, response |-> Undefined, unitsPromised |-> 0,
   unitsDelivered |-> 0, notes |-> Undefined]

\* The for loop of share-alert over hospitalIds: the sharedWith list and the
\* per-target results after it.
RECURSIVE ShareLoop(_, _, _, _)
ShareLoop(requester, hospitalIds, sharedWith, results) ==
  IF hospitalIds = <<>> THEN [sharedWith |-> sharedWith, results |-> results]
  ELSE LET hospitalId == Head(hospitalIds)
           alreadyShared == \E i \in 1..Len(sharedWith) : sharedWith[i].hospital = hospitalId
       IN IF ~isPartner(requester, hospitalId)
          THEN ShareLoop(requester, Tail(hospitalIds), sharedWith,
                 Append(results, [hospitalId |-> hospitalId, success |-> FALSE,
                                  reason |-> "Hospital is not a partner"]))
          ELSE IF alreadyShared
          THEN ShareLoop(requester, Tail(hospitalIds), sharedWith,
                 Append(results, [hospitalId |-> hospitalId, success |-> FALSE,
                                  reason |-> "Alert already shared with this hospital"]))
          ELSE ShareLoop(requester, Tail(hospitalIds),
                 Append(sharedWith, SharingRecord(hospitalId)),
                 Append(results, [hospitalId |-> hospitalId, success |-> TRUE,
                                  reason |-> Undefined]))

ShareAlert(requester, hospitalIds) ==
  /\ IF Len(hospitalIds) < 1
     THEN alert' = alert /\ last' = Answer(400)
     ELSE IF ~alertExists \/ requester # Owner
     THEN alert' = alert /\ last' = Answer(404)
     ELSE IF ~alert.sharing.allowSharing
     THEN alert' = alert /\ last' = Answer(400)
     ELSE LET out == ShareLoop(requester, hospitalIds, alert.sharing.sharedWith, <<>>)
          IN /\ alert' = [alert EXCEPT !.sharing.sharedWith = out.sharedWith]
             /\ last' = Answer(200)
  /\ UNCHANGED <<alertExists, now, partnerships, createPc, nExtends, reqs, hospital, autoAlerts, call>>

RespondShare(requester, response, unitsPromised) ==
  /\ LET sharedWith == alert.sharing.sharedWith
         i == FindIndex(HospitalKeys(sharedWith), requester)
     IN IF response \notin RespondShareResponses
        THEN alert' = alert /\ last' = Answer(400)
        ELSE IF ~alertExists
        THEN alert' = alert /\ last' = Answer(404)
        ELSE IF i = 0
        THEN alert' = alert /\ last' = Answer(404)
        ELSE IF sharedWith[i].response # "pending"
        THEN alert' = alert /\ last' = Answer(400)
        ELSE /\ alert' = [alert EXCEPT !.sharing.sharedWith[i].response = response,
                                       !.sharing.sharedWith[i].unitsPromised = unitsPromised,
                                       !.sharing.sharedWith[i].notes = "notes"]
             /\ last' = Answer(200)
  /\ UNCHANGED <<alertExists, now, partnerships, createPc, nExtends, reqs, hospital, autoAlerts, call>>

----------------------------------------------------------------------------
(* PUT /:notificationId/read (donor) *)

\* req.user._id of the account that owns donor profile d; ObjectIds of users
\* and of donor profiles are distinct.
UserId(d) ==
  CASE d = "d1" -> "u1" [] OTHER -> "u2"

MarkRead(d) ==
  /\ LET sentTo == alert.notifications.sentTo
         i == FindIndex(DonorKeys(sentTo), UserId(d))
     IN IF ~alertExists \/ i = 0
        THEN alert' = alert /\ last' = Answer(404)
        ELSE IF ~sentTo[i].opened
        THEN /\ alert' = [alert EXCEPT !.notifications.sentTo[i].opened = TRUE,
                                       !.notifications.opened = @ + 1]
             /\ last' = Answer(200)
        ELSE alert' = alert /\ last' = Answer(200)
  /\ UNCHANGED <<alertExists, now, partnerships, createPc, nExtends, reqs, hospital, autoAlerts, call>>

----------------------------------------------------------------------------
(* The alert lifecycle, one request at a time *)

Next ==
  \/ Tick
  \/ TTLRemove
  \/ \E donors \in DispatchInputs, threw \in ThrewInputs, m \in MailThrewInputs :
       Dispatch(donors, threw, m)
  \/ \E d \in Donors, in \in AddResponseInputs : AddResponse(d, in[1], in[2])
  \/ \E d \in Donors, rt \in RespondTypeInputs : RespondAsDonor(d, rt)
  \/ \E s \in StatusInputs : UpdateStatus(s)
  \/ \E h \in HoursInputs : ExtendAlert(h)
  \/ \E in \in ShareInputs : ShareAlert(in[1], in[2])
  \/ \E r \in RespondShareRequesters, resp \in RespondShareInputs, u \in UnitsPromisedInputs :
       RespondShare(r, resp, u)
  \/ \E d \in Donors : MarkRead(d)

Spec == Init /\ [][Next]_vars

----------------------------------------------------------------------------
(* Dispatch over lists of donors with one, two or three channels enabled    *)
(* and sends that throw, and the donors' responses with every response      *)
(* type, while the hospital changes the status.                             *)

NextDispatch ==
  \/ Tick
  \/ \E donors \in SendInputs, failing \in FailingInputs, m \in MailThrewInputs :
       Dispatch(donors, failing, m)
  \/ \E d \in Donors, rt \in RespondRouteInputs : RespondAsDonor(d, rt)
  \/ \E s \in DispatchStatusInputs : UpdateStatus(s)

SpecDispatch == Init /\ [][NextDispatch]_vars

----------------------------------------------------------------------------
(* Donations recorded on a fresh alert: the entity operation alone, on      *)
(* donors that were or were not notified.                                   *)

InitDonations ==
  /\ \E u \in UrgencyInputs, n \in 1..MaxUnits : alert = NewAlert(u, n, 0)
  /\ alertExists = TRUE
  /\ now = 0
  /\ partnerships = InitPartnerships
  /\ createPc = "saved"
  /\ nExtends = 0
  /\ reqs = [p \in Procs |-> IdleReq]
  /\ last = Answer(0)
  /\ hospital = NewHospital
  /\ autoAlerts = <<>>
  /\ call = NoCall

NextDonations ==
  \/ Tick
  \/ \E donors \in DispatchInputs, threw \in ThrewInputs, m \in MailThrewInputs :
       Dispatch(donors, threw, m)
  \/ \E d \in Donors, in \in DonationInputs : AddResponse(d, in[1], in[2])

SpecDonations == InitDonations /\ [][NextDonations]_vars

----------------------------------------------------------------------------
(* Concurrent respond-as-donor requests.  The handler awaits between        *)
(* Alert.findById and alert.save(), so another request can load or save in  *)
(* between; the check and addResponse run without interruption on the       *)
(* loaded document.                                                         *)

\* alert.save() of a loaded and then mutated document: Mongoose sends the
\* modifications only, $push for the appended array elements and $set for the
\* changed fields, addressed by position inside arrays.
SaveDelta(db, loaded, doc) ==
  LET
    modified(i) == i <= Len(loaded.notifications.sentTo)
                   /\ doc.notifications.sentTo[i] # loaded.notifications.sentTo[i]
  IN
  [db EXCEPT
     !.responses = @ \o SubSeq(doc.responses, Len(loaded.responses) + 1, Len(doc.responses)),
     !.notifications.responded =
        IF doc.notifications.responded # loaded.notifications.responded
        THEN doc.notifications.responded ELSE @,
     !.notifications.sentTo =
        [i \in 1..Len(@) |->
           IF modified(i)
           THEN [@[i] EXCEPT !.responded = doc.notifications.sentTo[i].responded,
                             !.response = doc.notifications.sentTo[i].response]
           ELSE @[i]],
     !.sharing.sharedWith =
        @ \o SubSeq(doc.sharing.sharedWith, Len(loaded.sharing.sharedWith) + 1,
                    Len(doc.sharing.sharedWith)),
     !.unitsCollected = IF doc.unitsCollected # loaded.unitsCollected
                        THEN doc.unitsCollected ELSE @,
     !.status = IF doc.status # loaded.status THEN doc.status ELSE @]

\* The update carries the document version when it sets a field inside an
\* array element; whether it does is decided by Mongoose, so both outcomes
\* are possible when an array of the stored document has grown since the load.
MayVersionConflict(db, loaded, doc) ==
  /\ doc.notifications.sentTo # loaded.notifications.sentTo
  /\ \/ Len(db.responses) # Len(loaded.responses)
     \/ Len(db.notifications.sentTo) # Len(loaded.notifications.sentTo)
     \/ Len(db.sharing.sharedWith) # Len(loaded.sharing.sharedWith)

RespondLoad(p, donorId, responseType) ==
  /\ reqs[p].pc = "idle"
  /\ IF responseType \notin RespondRouteTypes
     THEN /\ reqs' = [reqs EXCEPT ![p] = [pc |-> "done"]]
          /\ last' = Answer(400)
     ELSE /\ reqs' = [reqs EXCEPT ![p] = [pc |-> "loaded", donor |-> donorId,
                                          responseType |-> responseType,
                                          doc |-> alert, found |-> alertExists]]
          /\ last' = last
  /\ UNCHANGED <<alert, alertExists, now, partnerships, createPc, nExtends, hospital, autoAlerts, call>>

RespondSave(p) ==
  /\ reqs[p].pc = "loaded"
  /\ Len(alert.responses) < MaxResponses
  /\ reqs' = [reqs EXCEPT ![p] = [pc |-> "done"]]
  /\ LET r == reqs[p]
         out == RespondOutcome(r.doc, r.found, r.donor, r.responseType, now)
     IN IF out.code # 200
        THEN alert' = alert /\ last' = Answer(out.code)
        ELSE IF ~alertExists
        THEN alert' = alert /\ last' = Answer(500)
        ELSE \/ /\ alert' = SaveDelta(alert, r.doc, out.doc)
                /\ last' = Answer(200)
             \/ /\ MayVersionConflict(alert, r.doc, out.doc)
                /\ alert' = alert
                /\ last' = Answer(500)
  /\ UNCHANGED <<alertExists, now, partnerships, createPc, nExtends, hospital, autoAlerts, call>>

NextRace ==
  \/ \E donors \in DispatchInputs, threw \in ThrewInputs, m \in MailThrewInputs :
       Dispatch(donors, threw, m)
  \/ \E p \in Procs, d \in Donors, rt \in RespondRouteTypes \cup {"donated"} :
       RespondLoad(p, d, rt)
  \/ \E p \in Procs : RespondSave(p)

SpecRace == Init /\ [][NextRace]_vars

----------------------------------------------------------------------------
(* Concurrent share-alert requests.  The handler awaits at Alert.findOne    *)
(* and at alert.save(); the loop between them runs without interruption on  *)
(* the loaded document.  save() sends a $push of the records the loop       *)
(* appended, which carries no version condition.                            *)

ShareLoad(p, requester, hospitalIds) ==
  /\ reqs[p].pc = "idle"
  /\ IF Len(hospitalIds) < 1
     THEN /\ reqs' = [reqs EXCEPT ![p] = [pc |-> "done"]]
          /\ last' = Answer(400)
     ELSE /\ reqs' = [reqs EXCEPT ![p] = [pc |-> "shareLoaded", requester |-> requester,
                                          hospitalIds |-> hospitalIds, doc |-> alert,
                                          found |-> alertExists /\ requester = Owner]]
          /\ last' = last
  /\ UNCHANGED <<alert, alertExists, now, partnerships, createPc, nExtends,
                 hospital, autoAlerts, call>>

\* The answer keeps the request's hospitalIds and the per-target results.
ShareSave(p) ==
  /\ reqs[p].pc = "shareLoaded"
  /\ LET r == reqs[p]
         out == ShareLoop(r.requester, r.hospitalIds, r.doc.sharing.sharedWith, <<>>)
         doc == [r.doc EXCEPT !.sharing.sharedWith = out.sharedWith]
     IN IF ~r.found
        THEN /\ alert' = alert /\ last' = Answer(404)
             /\ reqs' = [reqs EXCEPT ![p] = [pc |-> "done"]]
        ELSE IF ~r.doc.sharing.allowSharing
        THEN /\ alert' = alert /\ last' = Answer(400)
             /\ reqs' = [reqs EXCEPT ![p] = [pc |-> "done"]]
        ELSE IF ~alertExists
        THEN /\ alert' = alert /\ last' = Answer(500)
             /\ reqs' = [reqs EXCEPT ![p] = [pc |-> "done"]]
        ELSE /\ alert' = SaveDelta(alert, r.doc, doc)
             /\ last' = Answer(200)
             /\ reqs' = [reqs EXCEPT ![p] = [pc |-> "shareDone", requester |-> r.requester,
                                             hospitalIds |-> r.hospitalIds,
                                             results |-> out.results]]
  /\ UNCHANGED <<alertExists, now, partnerships, createPc, nExtends,
                 hospital, autoAlerts, call>>

NextSharing ==
  \/ \E p \in Procs, in \in ShareInputs : ShareLoad(p, in[1], in[2])
  \/ \E p \in Procs : ShareSave(p)

SpecSharing == Init /\ [][NextSharing]_vars

----------------------------------------------------------------------------
(* POST /partnerships (hospital).  The handler awaits at Hospital.findById, *)
(* at hospital.save() and at targetHospital.save(); each save sends a $push *)
(* of the record the handler appended, and a save that rejects sends the    *)
(* handler to its catch.                                                    *)

PartnershipLoad(p, requester, hospitalId, type) ==
  /\ reqs[p].pc = "idle"
  /\ IF type \notin PartnershipTypes
     THEN /\ reqs' = [reqs EXCEPT ![p] = [pc |-> "done"]]
          /\ last' = Answer(400)
     ELSE IF hospitalId = requester
     THEN /\ reqs' = [reqs EXCEPT ![p] = [pc |-> "done"]]
          /\ last' = Answer(400)
     ELSE IF hospitalId \notin Hospitals
     THEN /\ reqs' = [reqs EXCEPT ![p] = [pc |-> "done"]]
          /\ last' = Answer(404)
     ELSE IF \E i \in 1..Len(partnerships[requester]) :
               partnerships[requester][i].hospitalId = hospitalId
     THEN /\ reqs' = [reqs EXCEPT ![p] = [pc |-> "done"]]
          /\ last' = Answer(400)
     ELSE /\ reqs' = [reqs EXCEPT ![p] = [pc |-> "partnerLoaded", requester |-> requester,
                                          hospitalId |-> hospitalId, type |-> type]]
          /\ last' = last
  /\ UNCHANGED <<alert, alertExists, now, partnerships, createPc, nExtends,
                 hospital, autoAlerts, call>>

\* await hospital.save()
PartnershipSaveHospital(p, ok) ==
  /\ reqs[p].pc = "partnerLoaded"
  /\ LET r == reqs[p]
     IN IF ok
        THEN /\ partnerships' = [partnerships EXCEPT
                    ![r.requester] = Append(@, Partnership(r.hospitalId, r.type))]
             /\ reqs' = [reqs EXCEPT ![p].pc = "partnerSaved"]
             /\ last' = last
        ELSE /\ partnerships' = partnerships
             /\ reqs' = [reqs EXCEPT ![p] = [pc |-> "done"]]
             /\ last' = Answer(500)
  /\ UNCHANGED <<alert, alertExists, now, createPc, nExtends, hospital, autoAlerts, call>>

\* await targetHospital.save(), then the answer
PartnershipSaveTarget(p, ok) ==
  /\ reqs[p].pc = "partnerSaved"
  /\ LET r == reqs[p]
     IN IF ok
        THEN /\ partnerships' = [partnerships EXCEPT
                    ![r.hospitalId] = Append(@, Partnership(r.requester, r.type))]
             /\ last' = Answer(200)
        ELSE /\ partnerships' = partnerships
             /\ last' = Answer(500)
  /\ reqs' = [reqs EXCEPT ![p] = [pc |-> "done"]]
  /\ UNCHANGED <<alert, alertExists, now, createPc, nExtends, hospital, autoAlerts, call>>

NextPartnership ==
  \/ \E p \in Procs, in \in PartnershipInputs : PartnershipLoad(p, in[1], in[2], in[3])
  \/ \E p \in Procs, ok \in SaveOkInputs : PartnershipSaveHospital(p, ok)
  \/ \E p \in Procs, ok \in SaveOkInputs : PartnershipSaveTarget(p, ok)

SpecPartnership == Init /\ [][NextPartnership]_vars

----------------------------------------------------------------------------
(* The owner hospital: POST / (create-alert) from the request on, and       *)
(* PUT /inventory/:bloodType with its automatic alert.  One blood type of   *)
(* the inventory is modelled; `reserved` and `lastUpdated` are written and  *)
(* never read by the handler.                                               *)

\* The value of `alert` before the hospital has created one.
NoAlert == [status |-> Undefined]

BloodTypes == {"A+", "A-", "B+", "B-", "AB+", "AB-", "O+", "O-"}

\* create-alert up to alert.save(): the validators of the route, new
\* Alert(alertData) with the defaults, save().
CreateAlert(urgencyLevel, unitsNeeded) ==
  /\ createPc = "idle"
  /\ IF \/ urgencyLevel \notin UrgencyLevels
        \/ unitsNeeded < MinUnitsNeeded
        \/ unitsNeeded > MaxUnitsNeeded
     THEN /\ last' = Answer(400)
          /\ UNCHANGED <<alert, alertExists, createPc>>
     ELSE /\ alert' = NewAlert(urgencyLevel, unitsNeeded, now)
          /\ alertExists' = TRUE
          /\ createPc' = "saved"
          /\ last' = last
  /\ UNCHANGED <<now, partnerships, nExtends, reqs, hospital, autoAlerts, call>>

isCriticalShortage(h) == h.inventory.available <= h.inventory.critical

UpdateInventory(bloodType, available, critical) ==
  /\ IF bloodType \notin BloodTypes
     THEN /\ last' = Answer(400)
          /\ UNCHANGED <<hospital, autoAlerts>>
     ELSE LET saved == [hospital EXCEPT
                         !.inventory.available = IF available # Absent THEN available ELSE @,
                         !.inventory.critical = IF critical # Absent THEN critical ELSE @]
              autoAlert == NewAlert("critical",
                                    saved.inventory.critical - saved.inventory.available, now)
          IN /\ hospital' = saved
             /\ IF saved.alerts.autoAlertEnabled /\ isCriticalShortage(saved)
                THEN IF ValidAlert(autoAlert)
                     THEN /\ Len(autoAlerts) < MaxAutoAlerts
                          /\ autoAlerts' = Append(autoAlerts, autoAlert)
                          /\ last' = Answer(200)
                     ELSE /\ autoAlerts' = autoAlerts
                          /\ last' = Answer(500)
                ELSE /\ autoAlerts' = autoAlerts
                     /\ last' = Answer(200)
  /\ UNCHANGED <<alert, alertExists, now, partnerships, createPc, nExtends, reqs, call>>

InitHospital ==
  /\ alert = NoAlert
  /\ alertExists = FALSE
  /\ now = 0
  /\ partnerships = InitPartnerships
  /\ createPc = "idle"
  /\ nExtends = 0
  /\ reqs = [p \in Procs |-> IdleReq]
  /\ last = Answer(0)
  /\ \E e \in BOOLEAN : hospital = [NewHospital EXCEPT !.alerts.autoAlertEnabled = e]
  /\ autoAlerts = <<>>
  /\ call = NoCall

NextHospital ==
  \/ Tick
  \/ \E u \in CreateUrgencyInputs, n \in CreateUnitsInputs : CreateAlert(u, n)
  \/ \E donors \in CreateDispatchInputs, threw \in ThrewInputs, m \in BOOLEAN :
       Dispatch(donors, threw, m)
  \/ \E b \in BloodTypeInputs, a \in AvailableInputs, c \in CriticalInputs :
       UpdateInventory(b, a, c)

SpecHospital == InitHospital /\ [][NextHospital]_vars

----------------------------------------------------------------------------
(* models/Donor.js: the age getter and checkEligibility *)

\* The age getter without the birthday adjustment.
ageByYear(dateOfBirth, clock) == clock.year - dateOfBirth.year

\* donorSchema.virtual('age')
age(dateOfBirth, clock) ==
  LET years == clock.year - dateOfBirth.year
      monthDiff == clock.month - dateOfBirth.month
  IN IF monthDiff < 0 \/ (monthDiff = 0 /\ clock.date < dateOfBirth.date)
     THEN years - 1
     ELSE years

\* donorSchema.methods.checkEligibility; a reason is the text of the message
\* and the number of days its template holds (0 when it holds none).
checkEligibility(donor, clock) ==
  LET a == age(donor.personalInfo.dateOfBirth, clock)
      daysSinceLastDonation ==
        (clock.t - donor.eligibility.lastDonationDate) \div (60 * 60 * 24)
  IN IF a < MinDonorAge \/ a > MaxDonorAge
     THEN [eligible |-> FALSE, reason |-> [text |-> "Age not within eligible range (18-65)", days |-> 0]]
     ELSE IF donor.medicalInfo.weight < MinDonorWeight
     THEN [eligible |-> FALSE, reason |-> [text |-> "Weight below minimum requirement (45kg)", days |-> 0]]
     ELSE IF /\ donor.eligibility.lastDonationDate # NoTime
             /\ daysSinceLastDonation < DonationIntervalDays
     THEN [eligible |-> FALSE,
           reason |-> [text |-> "Must wait ${days} more days since last donation",
                       days |-> DonationIntervalDays - daysSinceLastDonation]]
     ELSE IF /\ donor.eligibility.temporaryDeferral.until # NoTime
             /\ donor.eligibility.temporaryDeferral.until > clock.t
     THEN [eligible |-> FALSE, reason |-> [text |-> donor.eligibility.temporaryDeferral.reason, days |-> 0]]
     ELSE IF donor.medicalInfo.hasInfectiousDisease
     THEN [eligible |-> FALSE, reason |-> [text |-> "Medical condition prevents donation", days |-> 0]]
     ELSE [eligible |-> TRUE, reason |-> [text |-> "Eligible for donation", days |-> 0]]

\* The fields of a Donor document that the functions modelled read.
Donor(id, bloodGroup, dateOfBirth, weight, lastDonationDate, until, disease) ==
  [ id                 |-> id,
    personalInfo       |-> [dateOfBirth |-> dateOfBirth],
    medicalInfo        |-> [bloodGroup |-> bloodGroup, weight |-> weight,
                            hasInfectiousDisease |-> disease],
    eligibility        |-> [isEligible |-> TRUE, lastDonationDate |-> lastDonationDate,
                            temporaryDeferral |-> [reason |-> "deferred", until |-> until]],
    preferences        |-> [maxTravelDistance |-> 50, emergencyOnly |-> FALSE],
    verificationStatus |-> "verified",
    isActive           |-> TRUE,
    distance           |-> 10000 ]

\* A call of one of the pure functions: `call` holds the request and its
\* arguments, and after the call the function's name and its result.
CheckEligibility ==
  /\ call.fn = "none"
  /\ call.request = "checkEligibility"
  /\ call' = [fn |-> "checkEligibility", donor |-> call.donor, clock |-> call.clock,
              out |-> checkEligibility(call.donor, call.clock)]
  /\ UNCHANGED <<alert, alertExists, now, partnerships, createPc, nExtends, reqs, last,
                 hospital, autoAlerts>>

----------------------------------------------------------------------------
(* Blood type compatibility and the search for eligible donors *)

\* findEligibleDonors: compatibleDonorTypes, by the alert's blood type
compatibleDonorTypes ==
  [x \in BloodTypes |->
     CASE x = "A+"  -> {"A+", "A-", "O+", "O-"}
       [] x = "A-"  -> {"A-", "O-"}
       [] x = "B+"  -> {"B+", "B-", "O+", "O-"}
       [] x = "B-"  -> {"B-", "O-"}
       [] x = "AB+" -> {"A+", "A-", "B+", "B-", "AB+", "AB-", "O+", "O-"}
       [] x = "AB-" -> {"A-", "B-", "AB-", "O-"}
       [] x = "O+"  -> {"O+", "O-"}
       [] x = "O-"  -> {"O-"}]

\* Alert.checkDonorEligibility: compatibleBloodTypes, by the alert's blood type
compatibleBloodTypes ==
  [x \in BloodTypes |->
     CASE x = "A+"  -> {"A+", "A-", "O+", "O-"}
       [] x = "A-"  -> {"A-", "O-"}
       [] x = "B+"  -> {"B+", "B-", "O+", "O-"}
       [] x = "B-"  -> {"B-", "O-"}
       [] x = "AB+" -> {"A+", "A-", "B+", "B-", "AB+", "AB-", "O+", "O-"}
       [] x = "AB-" -> {"A-", "B-", "AB-", "O-"}
       [] x = "O+"  -> {"O+", "O-"}
       [] x = "O-"  -> {"O-"}]

\* getCompatibleBloodTypes with the O+ row missing AB+.
getCompatibleBloodTypesShortRow(donorBloodType) ==
  CASE donorBloodType = "A+"  -> {"A+", "AB+"}
    [] donorBloodType = "A-"  -> {"A+", "A-", "AB+", "AB-"}
    [] donorBloodType = "B+"  -> {"B+", "AB+"}
    [] donorBloodType = "B-"  -> {"B+", "B-", "AB+", "AB-"}
    [] donorBloodType = "AB+" -> {"AB+"}
    [] donorBloodType = "AB-" -> {"AB+", "AB-"}
    [] donorBloodType = "O+"  -> {"A+", "B+", "O+"}
    [] donorBloodType = "O-"  -> {"A+", "A-", "B+", "B-", "AB+", "AB-", "O+", "O-"}
    [] OTHER -> {}

\* getCompatibleBloodTypes(donorBloodType): the alert blood types a donor of
\* that type can give to; [] for a type the table does not have.
getCompatibleBloodTypes(donorBloodType) ==
  CASE donorBloodType = "A+"  -> {"A+", "AB+"}
    [] donorBloodType = "A-"  -> {"A+", "A-", "AB+", "AB-"}
    [] donorBloodType = "B+"  -> {"B+", "AB+"}
    [] donorBloodType = "B-"  -> {"B+", "B-", "AB+", "AB-"}
    [] donorBloodType = "AB+" -> {"AB+"}
    [] donorBloodType = "AB-" -> {"AB+", "AB-"}
    [] donorBloodType = "O+"  -> {"A+", "B+", "AB+", "O+"}
    [] donorBloodType = "O-"  -> {"A+", "A-", "B+", "B-", "AB+", "AB-", "O+", "O-"}
    [] OTHER -> {}

\* The fields of an alert that findEligibleDonors reads; responded is the
\* donors of alert.responses.
AlertQuery(bloodType, urgencyLevel, searchRadius, responded) ==
  [bloodType |-> bloodType, urgencyLevel |-> urgencyLevel,
   location |-> [searchRadius |-> searchRadius], responded |-> responded]

\* hasResponded answering that no donor has responded.
hasRespondedNever(a, donor) == FALSE

\* Alert.exists({_id: alert._id, 'responses.donor': donor._id})
hasResponded(a, donor) ==
  \E i \in 1..Len(a.responded) : a.responded[i] = donor.id

\* findEligibleDonors(alert): donors is the donor collection in the order
\* the $near query returns it, distance the donor's distance in metres.
RECURSIVE findEligibleDonors(_, _, _)
findEligibleDonors(a, donors, clock) ==
  IF donors = <<>> THEN <<>>
  ELSE LET d == Head(donors)
           eligibleBloodTypes == IF a.bloodType \in DOMAIN compatibleDonorTypes
                                 THEN compatibleDonorTypes[a.bloodType] ELSE {}
           found == /\ d.medicalInfo.bloodGroup \in eligibleBloodTypes
                    /\ d.eligibility.isEligible
                    /\ d.verificationStatus = "verified"
                    /\ d.isActive
                    /\ d.distance <= a.location.searchRadius * 1000
           kept == /\ checkEligibility(d, clock).eligible
                   /\ ~(d.preferences.maxTravelDistance < a.location.searchRadius)
                   /\ ~hasResponded(a, d)
                   /\ ~(d.preferences.emergencyOnly /\ a.urgencyLevel # "critical")
       IN (IF found /\ kept THEN <<d>> ELSE <<>>)
          \o findEligibleDonors(a, Tail(donors), clock)

\* Alert.checkDonorEligibility(donor, alert)
checkDonorEligibility(donor, a, clock) ==
  LET eligibleBloodTypes == IF a.bloodType \in DOMAIN compatibleBloodTypes
                            THEN compatibleBloodTypes[a.bloodType] ELSE {}
      donorEligibility == checkEligibility(donor, clock)
  IN IF donor.medicalInfo.bloodGroup \notin eligibleBloodTypes
     THEN [eligible |-> FALSE, reason |-> [text |-> "Blood type incompatible", days |-> 0]]
     ELSE IF ~donorEligibility.eligible
     THEN donorEligibility
     ELSE [eligible |-> TRUE, reason |-> [text |-> "Eligible for this alert", days |-> 0]]

\* A donor who passes every test of an AB+ alert with search radius 50.
GoodDonor(id) ==
  Donor(id, "O-", [year |-> 1990, month |-> 1, date |-> 20], 70, NoTime, NoTime, FALSE)

\* Donor documents that differ from GoodDonor in one respect each.
DonorProfiles(id) ==
  LET g == GoodDonor(id)
  IN { g,
       [g EXCEPT !.medicalInfo.bloodGroup = "AB-", !.preferences.maxTravelDistance = 10],
       [g EXCEPT !.medicalInfo.bloodGroup = "A+"],
       [g EXCEPT !.eligibility.isEligible = FALSE],
       [g EXCEPT !.verificationStatus = "pending"],
       [g EXCEPT !.isActive = FALSE],
       [g EXCEPT !.distance = 60000],
       [g EXCEPT !.distance = 60000, !.preferences.maxTravelDistance = 100],
       [g EXCEPT !.preferences.maxTravelDistance = 49],
       [g EXCEPT !.preferences.emergencyOnly = TRUE],
       [g EXCEPT !.medicalInfo.weight = 44],
       [g EXCEPT !.eligibility.lastDonationDate = 44 * DaySeconds + 1],
       [g EXCEPT !.medicalInfo.hasInfectiousDisease = TRUE] }

FindEligibleDonors ==
  /\ call.fn = "none"
  /\ call.request = "findEligibleDonors"
  /\ call' = [fn |-> "findEligibleDonors", alert |-> call.alert, donors |-> call.donors,
              clock |-> call.clock,
              out |-> findEligibleDonors(call.alert, call.donors, call.clock)]
  /\ UNCHANGED <<alert, alertExists, now, partnerships, createPc, nExtends, reqs, last,
                 hospital, autoAlerts>>

GetCompatibleBloodTypes ==
  /\ call.fn = "none"
  /\ call.request = "getCompatibleBloodTypes"
  /\ call' = [fn |-> "getCompatibleBloodTypes", donorBloodType |-> call.donorBloodType,
              out |-> getCompatibleBloodTypes(call.donorBloodType)]
  /\ UNCHANGED <<alert, alertExists, now, partnerships, createPc, nExtends, reqs, last,
                 hospital, autoAlerts>>

CheckDonorEligibility ==
  /\ call.fn = "none"
  /\ call.request = "checkDonorEligibility"
  /\ call' = [fn |-> "checkDonorEligibility", donor |-> call.donor, alert |-> call.alert,
              clock |-> call.clock,
              out |-> checkDonorEligibility(call.donor, call.alert, call.clock)]
  /\ UNCHANGED <<alert, alertExists, now, partnerships, createPc, nExtends, reqs, last,
                 hospital, autoAlerts>>

----------------------------------------------------------------------------
(* models/Alert.js: the derived metrics.  The operands are JavaScript       *)
(* Numbers: the quotient and the product with 100 are each rounded to the   *)
(* nearest binary64 value (ties to even) before Math.round sees them.       *)

\* A positive Number is [m |-> its 53 significand bits, first bit 1,
\*                       e |-> the exponent of the first bit]: the value is
\* the sum of m[i] * 2^(e - i + 1).  Zero is [zero |-> TRUE].
SignificandBits == 53

Zero == [zero |-> TRUE]

RECURSIVE IntBits(_)
IntBits(n) == IF n = 0 THEN <<>> ELSE Append(IntBits(n \div 2), n % 2)

RECURSIVE BitsInt(_)
BitsInt(bits) ==
  IF bits = <<>> THEN 0 ELSE 2 * BitsInt(SubSeq(bits, 1, Len(bits) - 1)) + bits[Len(bits)]

\* bits + 1; one bit longer when every bit is 1
RECURSIVE Increment(_)
Increment(bits) ==
  IF bits = <<>> THEN <<1>>
  ELSE IF bits[Len(bits)] = 0 THEN [bits EXCEPT ![Len(bits)] = 1]
  ELSE Append(Increment(SubSeq(bits, 1, Len(bits) - 1)), 0)

\* Round to nearest, ties to even: bits holds the exact significand, first
\* bit 1 of exponent e, at least SignificandBits long; sticky tells that the
\* exact value has further nonzero bits behind bits.
RoundToNearestEven(bits, e, sticky) ==
  LET kept == SubSeq(bits, 1, SignificandBits)
      rest == SubSeq(bits, SignificandBits + 1, Len(bits))
      guard == rest # <<>> /\ rest[1] = 1
      more == sticky \/ \E i \in 2..Len(rest) : rest[i] = 1
      up == guard /\ (more \/ kept[SignificandBits] = 1)
      inc == Increment(kept)
  IN IF ~up THEN [m |-> kept, e |-> e]
     ELSE IF Len(inc) > SignificandBits
     THEN [m |-> SubSeq(inc, 1, SignificandBits), e |-> e + 1]
     ELSE [m |-> inc, e |-> e]

\* The next k bits of r / D behind the binary point, for r < D.
RECURSIVE QuotientBits(_, _, _)
QuotientBits(r, D, k) ==
  IF k = 0 THEN <<>>
  ELSE IF 2 * r >= D THEN <<1>> \o QuotientBits(2 * r - D, D, k - 1)
  ELSE <<0>> \o QuotientBits(2 * r, D, k - 1)

RECURSIVE RemainderAfter(_, _, _)
RemainderAfter(r, D, k) ==
  IF k = 0 THEN r
  ELSE IF 2 * r >= D THEN RemainderAfter(2 * r - D, D, k - 1)
  ELSE RemainderAfter(2 * r, D, k - 1)

\* n / d of two integers 0 <= n, 0 < d, both below 1024
Divide(n, d) ==
  IF n = 0 THEN Zero
  ELSE LET e == CHOOSE x \in -10..10 :
                  \/ x >= 0 /\ d * 2^x <= n /\ n < d * 2^(x + 1)
                  \/ x < 0 /\ d <= n * 2^(-x) /\ n * 2^(-x) < 2 * d
           N == IF e < 0 THEN n * 2^(-e) ELSE n
           D == IF e > 0 THEN d * 2^e ELSE d
       IN RoundToNearestEven(<<1>> \o QuotientBits(N - D, D, SignificandBits),
                             e, RemainderAfter(N - D, D, SignificandBits) > 0)

\* The exact product of the significand bits[1..i] with c, plus carry; a
\* digit product below 2 leaves no carry.
RECURSIVE TimesBits(_, _, _, _)
TimesBits(bits, i, c, carry) ==
  IF i = 0 THEN IntBits(carry)
  ELSE LET t == bits[i] * c + carry
       IN IF t < 2 THEN Append(TimesBits(bits, i - 1, c, 0), t)
          ELSE Append(TimesBits(bits, i - 1, c, t \div 2), t % 2)

\* x * c for a small positive integer c
Times(x, c) ==
  IF x = Zero THEN Zero
  ELSE LET product == TimesBits(x.m, SignificandBits, c, 0)
       IN RoundToNearestEven(product, x.e + Len(product) - SignificandBits, FALSE)

\* Math.round(x) for 0 <= x < 2^31: the nearest integer, a tie going up
MathRound(x) ==
  IF x = Zero THEN 0
  ELSE IF x.e < -1 THEN 0
  ELSE IF x.e = -1 THEN 1
  ELSE BitsInt(SubSeq(x.m, 1, x.e + 1))
       + (IF x.e + 2 <= SignificandBits THEN x.m[x.e + 2] ELSE 0)

\* alertSchema.virtual('completionPercentage')
completionPercentage(a) ==
  IF a.unitsNeeded = 0 THEN 0
  ELSE MathRound(Times(Divide(a.unitsCollected, a.unitsNeeded), 100))

\* alertSchema.methods.getResponseRate
getResponseRate(a) ==
  IF a.notifications.sent = 0 THEN 0
  ELSE MathRound(Times(Divide(a.notifications.responded, a.notifications.sent), 100))

\* alertSchema.methods.getConversionRate
getConversionRate(a) ==
  LET totalResponses == Len(a.responses)
      donations == Cardinality({i \in 1..Len(a.responses) : a.responses[i].donationCompleted})
  IN IF totalResponses = 0 THEN 0
     ELSE MathRound(Times(Divide(donations, totalResponses), 100))

\* The fields of an Alert document that the metrics read: of n responses
\* the first k have donationCompleted.
MetricsAlert(unitsCollected, unitsNeeded, responded, sent, k, n) ==
  [ unitsNeeded    |-> unitsNeeded,
    unitsCollected |-> unitsCollected,
    notifications  |-> [sent |-> sent, responded |-> responded],
    responses      |-> [i \in 1..n |-> [donor |-> "d1", donationCompleted |-> i <= k]] ]

CompletionPercentage ==
  /\ call.fn = "none"
  /\ call.request = "completionPercentage"
  /\ call' = [fn |-> "completionPercentage", alert |-> call.alert,
              out |-> completionPercentage(call.alert)]
  /\ UNCHANGED <<alert, alertExists, now, partnerships, createPc, nExtends, reqs, last,
                 hospital, autoAlerts>>

GetResponseRate ==
  /\ call.fn = "none"
  /\ call.request = "getResponseRate"
  /\ call' = [fn |-> "getResponseRate", alert |-> call.alert,
              out |-> getResponseRate(call.alert)]
  /\ UNCHANGED <<alert, alertExists, now, partnerships, createPc, nExtends, reqs, last,
                 hospital, autoAlerts>>

GetConversionRate ==
  /\ call.fn = "none"
  /\ call.request = "getConversionRate"
  /\ call' = [fn |-> "getConversionRate", alert |-> call.alert,
              out |-> getConversionRate(call.alert)]
  /\ UNCHANGED <<alert, alertExists, now, partnerships, createPc, nExtends, reqs, last,
                 hospital, autoAlerts>>

\* The requests: the functions with the arguments they are called with.
CallInputs ==
  {[fn |-> "none", request |-> "checkEligibility",
    donor |-> Donor("d1", "O-", b, w, l, u, dis), clock |-> clock] :
      b \in DateOfBirthInputs, w \in WeightInputs, l \in LastDonationInputs,
      u \in DeferralUntilInputs, dis \in BOOLEAN, clock \in ClockInputs}
  \cup
  {[fn |-> "none", request |-> "findEligibleDonors",
    alert |-> AlertQuery(x, u, r, resp), donors |-> <<d1, d2>>, clock |-> clock] :
      x \in AlertBloodTypeInputs, u \in UrgencyInputs, r \in SearchRadiusInputs,
      resp \in RespondedInputs, d1 \in DonorProfiles("d1"), d2 \in DonorProfiles("d2"),
      clock \in ClockInputs}
  \cup
  {[fn |-> "none", request |-> "getCompatibleBloodTypes", donorBloodType |-> b] :
      b \in DonorBloodTypeInputs}
  \cup
  {[fn |-> "none", request |-> "checkDonorEligibility",
    donor |-> [GoodDonor("d1") EXCEPT !.medicalInfo.bloodGroup = b, !.medicalInfo.weight = w],
    alert |-> AlertQuery(x, "high", 50, <<>>), clock |-> clock] :
      b \in DonorBloodTypeInputs, x \in DonorBloodTypeInputs, w \in WeightInputs,
      clock \in ClockInputs}
  \cup
  {[fn |-> "none", request |-> f, alert |-> MetricsAlert(r[1], r[2], r[1], r[2], r[1], r[2])] :
      f \in {"completionPercentage", "getResponseRate"}, r \in RatioInputs}
  \cup
  {[fn |-> "none", request |-> "getConversionRate",
    alert |-> MetricsAlert(r[1], r[2], r[1], r[2], r[1], r[2])] :
      r \in {x \in RatioInputs : x[1] <= x[2]}}

InitPure ==
  /\ alert = NoAlert
  /\ alertExists = FALSE
  /\ now = 0
  /\ partnerships = InitPartnerships
  /\ createPc = "idle"
  /\ nExtends = 0
  /\ reqs = [p \in Procs |-> IdleReq]
  /\ last = Answer(0)
  /\ hospital = NewHospital
  /\ autoAlerts = <<>>
  /\ call \in CallInputs

NextPure ==
  \/ CheckEligibility
  \/ FindEligibleDonors
  \/ GetCompatibleBloodTypes
  \/ CheckDonorEligibility
  \/ CompletionPercentage
  \/ GetResponseRate
  \/ GetConversionRate

SpecPure == InitPure /\ [][NextPure]_vars

----------------------------------------------------------------------------
(* Properties *)

HasResponse(a, donorId) ==
  \E i \in 1..Len(a.responses) : a.responses[i].donor = donorId

ResponsesOf(a, donorId) ==
  {i \in 1..Len(a.responses) : a.responses[i].donor = donorId}

Donations(a) ==
  {i \in 1..Len(a.responses) :
     a.responses[i].responseType = "donated" /\ a.responses[i].donationDetails}

\* C1: under any interleaving of concurrent respond-as-donor requests the
\* persisted alert holds at most one response record per donor.
C1_OneResponsePerDonorUnderRace ==
  \A d \in Donors : Cardinality(ResponsesOf(alert, d)) <= 1

\* C2: addResponse for a donor who already has a response on the alert fails
\* and changes nothing: no second record, notifications.responded not
\* incremented.
C2_SecondAddResponseFails ==
  [][\A d \in Donors, in \in AddResponseInputs :
       (AddResponse(d, in[1], in[2]) /\ HasResponse(alert, d))
         => /\ last' # 200
            /\ alert'.responses = alert.responses
            /\ alert'.notifications.responded = alert.notifications.responded]_vars

\* C3: on an alert that starts active with unitsCollected = 0, every recorded
\* donated response with donation details counts one unit, and the status is
\* active at 0 units, partially_fulfilled while 0 < unitsCollected <
\* unitsNeeded, fulfilled from unitsCollected >= unitsNeeded on.
C3_DonationsCountAndSetStatus ==
  /\ alert.unitsCollected = Cardinality(Donations(alert))
  /\ alert.status = IF alert.unitsCollected = 0 THEN "active"
                    ELSE IF alert.unitsCollected < alert.unitsNeeded THEN "partially_fulfilled"
                    ELSE "fulfilled"

\* Two donations by distinct donors have fulfilled an alert that needed two.
C3_Witness ==
  /\ alert.unitsNeeded = 2
  /\ alert.unitsCollected = 2
  /\ alert.status = "fulfilled"
  /\ Len(alert.responses) = 2
  /\ alert.responses[1].donor # alert.responses[2].donor

\* C4: unitsCollected never decreases, and a donated response on a fulfilled
\* alert leaves it fulfilled.
C4_FulfillmentMonotone ==
  [][/\ alert'.unitsCollected >= alert.unitsCollected
     /\ \A d \in Donors :
          (AddResponse(d, "donated", TRUE) /\ alert.status = "fulfilled")
            => alert'.status = "fulfilled"]_vars

\* C5: once the status is expired no operation changes it.
C5_ExpiredStaysExpired ==
  [][alert.status = "expired" => alert'.status = "expired"]_vars

\* C6: a donated response on a cancelled or expired alert does not change the
\* status.
C6_DonationLeavesTerminalStatus ==
  [][\A d \in Donors :
       (AddResponse(d, "donated", TRUE) /\ alert.status \in {"cancelled", "expired"})
         => alert'.status = alert.status]_vars

\* C7: respond-as-donor on an alert whose expiresAt has passed is rejected and
\* writes nothing, whatever the persisted status.
C7_RespondRejectedPastExpiry ==
  [][\A d \in Donors, rt \in RespondTypeInputs :
       (RespondAsDonor(d, rt) /\ alertExists /\ isExpired(alert, now))
         => (last' # 200 /\ alert' = alert)]_vars

\* C8: extend-alert is rejected and leaves the alert unchanged when the status
\* is not active or partially_fulfilled, or when expiresAt has passed.
C8_ExtendRejectedWhenNotExtendable ==
  [][\A h \in HoursInputs :
       (/\ ExtendAlert(h)
        /\ alertExists
        /\ \/ alert.status \notin {"active", "partially_fulfilled"}
           \/ isExpired(alert, now))
         => (last' = 400 /\ alert' = alert)]_vars

\* C9: expiresAt changes only in an extend-alert step, by exactly hours*3600
\* seconds with 1 <= hours <= 168; time moves forward; so an alert that is
\* expired by its expiresAt becomes non-expired only in an extend-alert step.
C9_OnlyExtendMovesExpiry ==
  [][/\ now' >= now
     /\ alert'.expiresAt # alert.expiresAt
          => \E h \in HoursInputs :
               /\ ExtendAlert(h)
               /\ 1 <= h /\ h <= 168
               /\ alert'.expiresAt = alert.expiresAt + h * 3600 * 1000
     /\ (isExpired(alert, now) /\ ~isExpired(alert', now'))
          => \E h \in HoursInputs : ExtendAlert(h) /\ last' = 200]_vars

\* An alert past its default expiry that an extension has made non-expired.
C9_Witness ==
  /\ nExtends > 0
  /\ alert.expiresAt = DefaultExpiresAt(alert.urgencyLevel, 0) + 168 * 3600 * 1000
  /\ now > DefaultExpiresAt(alert.urgencyLevel, 0)
  /\ ~isExpired(alert, now)

\* C10: a record appended by share-alert has response pending; the partner's
\* first respond-to-share succeeds and writes response, unitsPromised and
\* notes into that record; every later one is rejected without mutation.
C10_ShareThenRespondOnce ==
  [][/\ \A i \in 1..Len(alert'.sharing.sharedWith) :
          i > Len(alert.sharing.sharedWith)
            => alert'.sharing.sharedWith[i].response = "pending"
     /\ \A r \in RespondShareRequesters, resp \in RespondShareResponses,
           u \in UnitsPromisedInputs :
          LET i == FindIndex(HospitalKeys(alert.sharing.sharedWith), r)
          IN (RespondShare(r, resp, u) /\ alertExists /\ i # 0)
               => IF alert.sharing.sharedWith[i].response \notin RespondShareResponses
                  THEN /\ last' = 200
                       /\ alert'.sharing.sharedWith[i].response = resp
                       /\ alert'.sharing.sharedWith[i].unitsPromised = u
                  ELSE last' = 400 /\ alert' = alert]_vars

\* C11: share-alert appends a sharing record for a target only if the
\* requester holds an active partnership of type blood_sharing or
\* emergency_backup with it; for any other target the per-target result is
\* {success: false, reason: 'Hospital is not a partner'} and sharedWith gets no
\* record for that target.
C11_ShareOnlyWithPartners ==
  LET SharingPartner(a, b) ==
        \E i \in 1..Len(partnerships[a]) :
           /\ partnerships[a][i].hospitalId = b
           /\ partnerships[a][i].status = "active"
           /\ partnerships[a][i].type \in {"blood_sharing", "emergency_backup"}
  IN /\ \A p \in Procs :
          reqs[p].pc = "shareDone"
            => \A k \in 1..Len(reqs[p].hospitalIds) :
                 ~SharingPartner(reqs[p].requester, reqs[p].hospitalIds[k])
                   => reqs[p].results[k] =
                        [hospitalId |-> reqs[p].hospitalIds[k], success |-> FALSE,
                         reason |-> "Hospital is not a partner"]
     /\ \A i \in 1..Len(alert.sharing.sharedWith) :
          SharingPartner(Owner, alert.sharing.sharedWith[i].hospital)

\* A share request for a referral partner and a blood_sharing partner has
\* been answered: the first target refused, the second recorded.
C11_Witness ==
  \E p \in Procs :
     /\ reqs[p].pc = "shareDone"
     /\ reqs[p].hospitalIds = <<"hC", "hB">>
     /\ ~reqs[p].results[1].success
     /\ reqs[p].results[2].success
     /\ HospitalKeys(alert.sharing.sharedWith) = <<"hB">>

\* C12: sharing.sharedWith holds at most one record per target hospital, also
\* when an id is repeated inside one share request and when share requests
\* for the alert run concurrently.
C12_OneSharingRecordPerHospital ==
  \A h \in Hospitals :
     Cardinality({i \in 1..Len(alert.sharing.sharedWith) :
                    alert.sharing.sharedWith[i].hospital = h}) <= 1

\* C13: whenever no partnership request is in flight, hospital A lists a
\* partnership of a type with B exactly when B lists one of that type with
\* A, and no hospital lists two partnerships with the same hospital; under
\* any interleaving of partnership requests and with saves that fail.
C13_PartnershipsSymmetric ==
  LET Listed(a, b, t) ==
        \E i \in 1..Len(partnerships[a]) :
           partnerships[a][i].hospitalId = b /\ partnerships[a][i].type = t
      RecordsFor(a, b) ==
        {i \in 1..Len(partnerships[a]) : partnerships[a][i].hospitalId = b}
  IN (\A p \in Procs : reqs[p].pc \in {"idle", "done"})
       => \A a \in Hospitals, b \in Hospitals :
            /\ \A t \in PartnershipTypes : Listed(a, b, t) <=> Listed(b, a, t)
            /\ Cardinality(RecordsFor(a, b)) <= 1

\* C14: inventory updates that keep the blood type in critical shortage never
\* leave two active automatic alerts for the hospital and blood type.
C14_OneActiveAutoAlert ==
  Cardinality({i \in 1..Len(autoAlerts) : autoAlerts[i].status = "active"}) <= 1

\* C15: a notification send that fails during create-alert, a donor's channel
\* or the hospital's confirmation, never aborts it: the handler answers 201,
\* the alert stays persisted and totalBloodRequests is incremented, also
\* with no eligible donor.
C15_SendFailureNeverAbortsCreate ==
  [][\A donors \in CreateDispatchInputs, threw \in ThrewInputs, m \in BOOLEAN :
       (Dispatch(donors, threw, m) /\ alertExists)
         => /\ last' = 201
            /\ alertExists'
            /\ hospital'.statistics.totalBloodRequests =
                 hospital.statistics.totalBloodRequests + 1]_vars

\* C16: when create-alert or the inventory update answers an error, nothing
\* of what it changed is persisted: no alert record, no notification
\* records or counters, no hospital statistics, no inventory values.
C16_ErrorsPersistNothing ==
  [][/\ \A u \in CreateUrgencyInputs, n \in CreateUnitsInputs :
          (CreateAlert(u, n) /\ last' >= 400)
            => (alertExists' = alertExists /\ alert' = alert /\ hospital' = hospital)
     /\ \A donors \in CreateDispatchInputs, threw \in ThrewInputs, m \in BOOLEAN :
          (Dispatch(donors, threw, m) /\ last' >= 400)
            => (~alertExists' /\ hospital' = hospital)
     /\ \A b \in BloodTypeInputs, a \in AvailableInputs, c \in CriticalInputs :
          (UpdateInventory(b, a, c) /\ last' >= 400)
            => (hospital' = hospital /\ autoAlerts' = autoAlerts)]_vars

\* C20: an alert saved by create-alert, and an automatic alert saved by the
\* inventory update, has expiresAt = creation time + 24 hours when its
\* urgencyLevel is critical and + 72 hours otherwise, status active,
\* unitsCollected 0 and the notification counters sent, opened, responded 0.
C20_NewAlertDefaults ==
  [][LET Fresh(a, urgencyLevel, t) ==
           /\ a.urgencyLevel = urgencyLevel
           /\ a.expiresAt = t + (IF urgencyLevel = "critical" THEN 24 ELSE 72) * 3600 * 1000
           /\ a.status = "active"
           /\ a.unitsCollected = 0
           /\ a.notifications.sent = 0
           /\ a.notifications.opened = 0
           /\ a.notifications.responded = 0
     IN /\ \A u \in CreateUrgencyInputs, n \in CreateUnitsInputs :
             (CreateAlert(u, n) /\ alertExists') => Fresh(alert', u, now)
        /\ Len(autoAlerts') > Len(autoAlerts)
             => Fresh(autoAlerts'[Len(autoAlerts')], "critical", now)]_vars

\* The alert just saved by create-alert, at a time after the first moment,
\* is critical and expires 24 hours later.
C20_Witness ==
  /\ createPc = "saved"
  /\ now > 0
  /\ alert.urgencyLevel = "critical"
  /\ alert.expiresAt = now + 24 * 3600 * 1000

C18_CompatibilityTablesAgree ==
  LET Antigens(b) == CASE b = "A+" -> {"A", "Rh"}  [] b = "A-" -> {"A"}
                       [] b = "B+" -> {"B", "Rh"}  [] b = "B-" -> {"B"}
                       [] b = "AB+" -> {"A", "B", "Rh"} [] b = "AB-" -> {"A", "B"}
                       [] b = "O+" -> {"Rh"} [] b = "O-" -> {}
      CanGive(d, x) == Antigens(d) \subseteq Antigens(x)
  IN /\ (call.fn = "getCompatibleBloodTypes" /\ call.donorBloodType \in BloodTypes)
          => \A x \in BloodTypes :
               /\ x \in call.out <=> CanGive(call.donorBloodType, x)
               /\ x \in call.out <=> call.donorBloodType \in compatibleDonorTypes[x]
               /\ compatibleBloodTypes[x] = compatibleDonorTypes[x]
     /\ (/\ call.fn = "checkDonorEligibility"
         /\ call.donor.medicalInfo.bloodGroup \in BloodTypes
         /\ call.alert.bloodType \in BloodTypes)
          => (call.out.reason.text = "Blood type incompatible"
                <=> ~CanGive(call.donor.medicalInfo.bloodGroup, call.alert.bloodType))

\* getCompatibleBloodTypes('O+') has answered A+, B+, AB+ and O+.
C18_Witness ==
  /\ call.fn = "getCompatibleBloodTypes"
  /\ call.donorBloodType = "O+"
  /\ call.out = {"A+", "B+", "AB+", "O+"}

\* C19: checkEligibility tests age in [18, 65], weight >= 45, at least 56
\* whole days since lastDonationDate, no temporary deferral with until > now,
\* no infectious disease, in that order, and answers with the reason of the
\* first rule that fails; 56 days after the donation the donor is eligible,
\* at 55 days not.
C19_EligibilityRulesInOrder ==
  call.fn = "checkEligibility" =>
    LET d == call.donor
        birth == d.personalInfo.dateOfBirth
        hadBirthday == \/ call.clock.month > birth.month
                       \/ call.clock.month = birth.month /\ call.clock.date >= birth.date
        years == call.clock.year - birth.year - (IF hadBirthday THEN 0 ELSE 1)
        donated == d.eligibility.lastDonationDate
        wholeDays == CHOOSE n \in -2..200 :
                       n * 86400 <= call.clock.t - donated /\ call.clock.t - donated < (n + 1) * 86400
        ageBad == years < 18 \/ years > 65
        weightBad == d.medicalInfo.weight < 45
        donationBad == donated # NoTime /\ wholeDays < 56
        deferralBad == /\ d.eligibility.temporaryDeferral.until # NoTime
                       /\ d.eligibility.temporaryDeferral.until > call.clock.t
        diseaseBad == d.medicalInfo.hasInfectiousDisease
    IN /\ call.out.eligible <=> ~(ageBad \/ weightBad \/ donationBad \/ deferralBad \/ diseaseBad)
       /\ call.out.reason =
            IF ageBad THEN [text |-> "Age not within eligible range (18-65)", days |-> 0]
            ELSE IF weightBad THEN [text |-> "Weight below minimum requirement (45kg)", days |-> 0]
            ELSE IF donationBad
            THEN [text |-> "Must wait ${days} more days since last donation",
                  days |-> 56 - wholeDays]
            ELSE IF deferralBad THEN [text |-> d.eligibility.temporaryDeferral.reason, days |-> 0]
            ELSE IF diseaseBad THEN [text |-> "Medical condition prevents donation", days |-> 0]
            ELSE [text |-> "Eligible for donation", days |-> 0]
       /\ (donated # NoTime /\ call.clock.t - donated = 56 * 86400
             /\ ~(ageBad \/ weightBad \/ deferralBad \/ diseaseBad)) => call.out.eligible

\* A donor who turned 18 today, weighs 45 kg, donated exactly 56 days ago and
\* whose deferral ended at this moment has been found eligible.
C19_Witness ==
  /\ call.fn = "checkEligibility"
  /\ call.donor.personalInfo.dateOfBirth = [year |-> 2007, month |-> 6, date |-> 15]
  /\ call.donor.medicalInfo.weight = 45
  /\ call.clock.t - call.donor.eligibility.lastDonationDate = 56 * 86400
  /\ call.donor.eligibility.temporaryDeferral.until = call.clock.t
  /\ call.out.eligible

\* C21: the derived metrics return 0 when their denominator is 0
\* (getResponseRate with notifications.sent = 0, getConversionRate with no
\* responses, completionPercentage with unitsNeeded = 0) and otherwise equal
\* round(100 * numerator / denominator).
C21_MetricsRoundedPercentage ==
  LET Rounded(n, d) == IF d = 0 THEN 0 ELSE (200 * n + d) \div (2 * d)
      a == call.alert
  IN /\ call.fn = "completionPercentage"
          => call.out = Rounded(a.unitsCollected, a.unitsNeeded)
     /\ call.fn = "getResponseRate"
          => call.out = Rounded(a.notifications.responded, a.notifications.sent)
     /\ call.fn = "getConversionRate"
          => call.out = Rounded(Cardinality({i \in 1..Len(a.responses) :
                                               a.responses[i].donationCompleted}),
                                Len(a.responses))

\* C22: dispatch records exactly one notification entry in
\* notifications.sentTo for every donor of the dispatched list, with method
\* the first enabled channel in the order email > sms > push, whatever
\* number of channel sends was attempted and whether or not any of them
\* failed.
C22_OneRecordPerDispatchedDonor ==
  [][\A donors \in SendInputs, failing \in FailingInputs, m \in MailThrewInputs :
       (Dispatch(donors, failing, m) /\ alertExists)
         => LET before == Len(alert.notifications.sentTo)
                sentTo == alert'.notifications.sentTo
                FirstEnabled(d) ==
                  CHOOSE c \in {"email", "sms", "push"} :
                    /\ NotificationMethods[d][c]
                    /\ c = "sms" => ~NotificationMethods[d]["email"]
                    /\ c = "push" => ~NotificationMethods[d]["email"] /\ ~NotificationMethods[d]["sms"]
            IN /\ Len(sentTo) = before + Len(donors)
               /\ \A k \in 1..Len(donors) :
                    /\ sentTo[before + k].donor = donors[k]
                    /\ sentTo[before + k].method = FirstEnabled(donors[k])]_vars

\* C23: during dispatch a send that fails for one donor never prevents the
\* sends to the remaining donors: every donor of the list has its first
\* enabled channel attempted, whatever happened with the donors before it.
C23_EveryDonorAttempted ==
  call.fn = "sendBloodShortageAlert" =>
    \A k \in 1..Len(call.donors) :
       LET d == call.donors[k]
           first == IF NotificationMethods[d]["email"] THEN "email"
                    ELSE IF NotificationMethods[d]["sms"] THEN "sms" ELSE "push"
       IN \E i \in 1..Len(call.sends) : call.sends[i] = <<d, first>>

\* Dispatch to d3, d1, d2 where the push to d3 and the SMS to d1 threw: the
\* e-mail to d1 and both messages to d2 were still sent, d2 alone is recorded.
C23_Witness ==
  /\ call.fn = "sendBloodShortageAlert"
  /\ call.donors = <<"d3", "d1", "d2">>
  /\ call.sends = << <<"d3", "push">>, <<"d1", "email">>, <<"d1", "sms">>,
                     <<"d2", "sms">>, <<"d2", "push">> >>
  /\ call.out["push"].failed = 1
  /\ call.out["sms"].failed = 1
  /\ DonorKeys(alert.notifications.sentTo) = <<"d2">>

\* C24: after dispatch over a donor list D, notifications.sent has grown by
\* exactly |D|, whatever number of channels each donor has enabled and
\* whatever number of sends succeeded or failed.
C24_SentGrowsByDonors ==
  [][\A donors \in SendInputs, failing \in FailingInputs, m \in MailThrewInputs :
       (Dispatch(donors, failing, m) /\ alertExists)
         => alert'.notifications.sent = alert.notifications.sent + Len(donors)]_vars

\* Dispatch to d2 (two channels) and d1, whose e-mail threw: three sends, one
\* record, and notifications.sent is 2.
C24_Witness ==
  /\ call.fn = "sendBloodShortageAlert"
  /\ call.donors = <<"d2", "d1">>
  /\ Len(call.sends) = 3
  /\ call.out["email"].failed = 1
  /\ Len(alert.notifications.sentTo) = 1
  /\ alert.notifications.sent = 2

\* C25 as stated: in the result of dispatch, for each channel c,
\* sent(c) + failed(c) equals the number of dispatched donors that have c
\* enabled.
C25_SentPlusFailedIsEnabled ==
  call.fn = "sendBloodShortageAlert" =>
    \A c \in {"email", "sms", "push"} :
       call.out[c].sent + call.out[c].failed =
         Cardinality({k \in 1..Len(call.donors) : NotificationMethods[call.donors[k]][c]})

\* C25 amended: in the result of dispatch, for each channel c,
\* sent(c) + failed(c) equals the number of dispatched donors that have c
\* enabled plus the number of them whose send on c succeeded and whose send
\* on a later channel failed (such a donor counts as sent and as failed on c).
C25_SentPlusFailedCountsTwice ==
  [][\A donors \in SendInputs, failing \in FailingInputs, m \in MailThrewInputs :
       (Dispatch(donors, failing, m) /\ alertExists)
         => LET Order == [email |-> 1, sms |-> 2, push |-> 3]
                Enabled(k, c) == NotificationMethods[donors[k]][c]
                Fails(k, x) == Enabled(k, x) /\ <<donors[k], x>> \in failing
                Succeeded(k, c) ==
                  /\ Enabled(k, c)
                  /\ \A x \in DOMAIN Order : Order[x] <= Order[c] => ~Fails(k, x)
                LaterFailed(k, c) ==
                  \E x \in DOMAIN Order : Order[x] > Order[c] /\ Fails(k, x)
            IN \A c \in DOMAIN Order :
                 call'.out[c].sent + call'.out[c].failed =
                   Cardinality({k \in 1..Len(donors) : Enabled(k, c)})
                   + Cardinality({k \in 1..Len(donors) : Succeeded(k, c) /\ LaterFailed(k, c)})]_vars

\* Dispatch to d1 alone, whose e-mail was sent and whose SMS threw: e-mail
\* counts one sent and one failed.
C25_Witness ==
  /\ call.fn = "sendBloodShortageAlert"
  /\ call.donors = <<"d1">>
  /\ call.sends = << <<"d1", "email">>, <<"d1", "sms">> >>
  /\ call.out["email"] = [sent |-> 1, failed |-> 1]
  /\ call.out["sms"] = [sent |-> 0, failed |-> 1]

\* C26: in every reachable state of an alert notifications.responded <=
\* notifications.sent, so getResponseRate() never exceeds 100.
C26_RespondedAtMostSent ==
  /\ alert.notifications.responded <= alert.notifications.sent
  /\ getResponseRate(alert) <= 100

\* C27: in every reachable state of an alert notifications.responded equals
\* the number of records in responses.
C27_RespondedCountsResponses ==
  alert.notifications.responded = Len(alert.responses)

\* C28: respond-as-donor by a donor who has a notification record on the
\* alert succeeds for each response type the operation accepts (interested,
\* committed, not_available, not_eligible): the response is appended with
\* its responseTime and the notification record is marked responded with
\* response equal to that type.
C28_NotifiedDonorCanRespond ==
  [][\A d \in Donors, rt \in {"interested", "committed", "not_available", "not_eligible"} :
       LET sentTo == alert.notifications.sentTo
           Notified == {i \in 1..Len(sentTo) : sentTo[i].donor = d}
       IN (/\ RespondAsDonor(d, rt)
           /\ alertExists
           /\ alert.status = "active"
           /\ Notified # {}
           /\ \A i \in 1..Len(alert.responses) : alert.responses[i].donor # d)
            => LET n == CHOOSE i \in Notified : \A j \in Notified : i <= j
                   r == alert'.responses[Len(alert'.responses)]
               IN /\ last' = 200
                  /\ Len(alert'.responses) = Len(alert.responses) + 1
                  /\ r.donor = d
                  /\ r.responseType = rt
                  /\ r.responseTime * 60000 <= now - sentTo[n].sentAt
                  /\ now - sentTo[n].sentAt < (r.responseTime + 1) * 60000
                  /\ alert'.notifications.sentTo[n].responded
                  /\ alert'.notifications.sentTo[n].response = rt]_vars

\* C29: respond-as-donor leaves unitsCollected and status of the alert
\* unchanged: it accepts only alerts with status active and only the
\* response types interested, committed, not_available and not_eligible, so
\* no donor response moves an alert to partially_fulfilled or fulfilled.
C29_RespondKeepsUnitsAndStatus ==
  [][\A d \in Donors, rt \in RespondRouteInputs :
       RespondAsDonor(d, rt)
         => /\ alert'.unitsCollected = alert.unitsCollected
            /\ alert'.status = alert.status
            /\ last' = 200
                 => /\ alert.status = "active"
                    /\ rt \in {"interested", "committed", "not_available", "not_eligible"}]_vars

\* Both donors have responded, one of them committed; the alert is active
\* with no unit collected.
C29_Witness ==
  /\ Len(alert.responses) = 2
  /\ \E i \in 1..2 : alert.responses[i].responseType = "committed"
  /\ alert.status = "active"
  /\ alert.unitsCollected = 0

\* C30: whenever an inventory update triggers the automatic alert
\* (autoAlertEnabled and available <= critical after the update), the
\* alert's unitsNeeded = critical - available is at least 1, the alert
\* passes validation and the request succeeds; also when available equals
\* critical.
C30_AutoAlertNeedsAtLeastOne ==
  [][\A b \in BloodTypeInputs, a \in AvailableInputs, c \in CriticalInputs :
       (/\ UpdateInventory(b, a, c)
        /\ b \in BloodTypes
        /\ hospital'.alerts.autoAlertEnabled
        /\ hospital'.inventory.available <= hospital'.inventory.critical)
         => /\ hospital'.inventory.critical - hospital'.inventory.available >= 1
            /\ last' = 200
            /\ Len(autoAlerts') = Len(autoAlerts) + 1
            /\ autoAlerts'[Len(autoAlerts')].unitsNeeded =
                 hospital'.inventory.critical - hospital'.inventory.available]_vars

====
